---- MODULE Spec2Model ----
(***************************************************************************)
(* A model of logic_model.py: the interactive menu, the team comparator    *)
(* (fetch_advanced_stats, compare_teams) and the player lookup             *)
(* (get_player_position, get_player_stats_by_name).                        *)
(*                                                                         *)
(* Python strings are TLA+ strings (TLC evaluates Len, SubSeq and \o on    *)
(* them), so upper/lower/title/replace/sorted/int are computed character   *)
(* by character as CPython computes them.  A remote call is a step of its  *)
(* own: the request is logged in `calls` when it is issued and the action  *)
(* that receives the reply (or the fault) runs the code up to the next     *)
(* request or back to the menu prompt.                                     *)
(***************************************************************************)
EXTENDS Integers, Sequences, FiniteSets, TLC

VARIABLES
    access_token,    \* configuration.access_token (os.getenv result)
    pc,              \* where the process is: menu (top of the while loop) | prompt (at input) |
                     \* fetch_a | fetch_b | roster | player_stats (a request is out) | exited | crashed
    out,             \* lines printed since the last input was read (at the prompt: the menu)
    calls,           \* remote requests issued since the menu was last shown
    args,            \* the inputs read for the current menu choice
    stats_a,         \* compare_teams: stats_a
    stats_b,         \* compare_teams: stats_b
    position,        \* get_player_stats_by_name: position
    cat_idx,         \* get_player_stats_by_name: index of the category being fetched
    combined_stats,  \* get_player_stats_by_name: combined_stats
    matched,         \* per category processed: the player record found in its response, or None (history)
    fault,           \* the fault raised by a remote call during the current choice, "" if none
    uncaught         \* the exception that left the menu loop uncaught, "" if none

vars == <<access_token, pc, out, calls, args, stats_a, stats_b, position,
          cat_idx, combined_stats, matched, fault, uncaught>>

-----------------------------------------------------------------------------
(* Bounds of the model *)

\* longest roster / player-stats reply the remote API returns in the model
MaxLen == 2

-----------------------------------------------------------------------------
(* Python values: None, str, int, dict *)

PyNone == [t |-> "none"]
PyStr(s) == [t |-> "str", v |-> s]
PyInt(n) == [t |-> "int", v |-> n]
PyDict(f) == [t |-> "dict", v |-> f]

\* the empty dict {}
EmptyMap == [k \in {} |-> PyNone]

\* bool(x)
Truthy(x) ==
    CASE x.t = "none" -> FALSE
      [] x.t = "str"  -> x.v # ""
      [] x.t = "int"  -> x.v # 0
      [] x.t = "dict" -> DOMAIN x.v # {}

\* str(x) for the scalar values a statistic takes
py_str(x) ==
    CASE x.t = "none" -> "None"
      [] x.t = "str"  -> x.v
      [] x.t = "int"  -> ToString(x.v)
      [] x.t = "dict" -> "{...}"

\* d.get(k) on a dict held as a TLA+ function
DictGet(d, k) == IF k \in DOMAIN d THEN d[k] ELSE PyNone

-----------------------------------------------------------------------------
(* Python str methods, character by character *)

LowerChars == "abcdefghijklmnopqrstuvwxyz"
UpperChars == "ABCDEFGHIJKLMNOPQRSTUVWXYZ"
DigitChars == "0123456789"
\* the characters of the model in code-point order
AsciiChars == " '()+-.0123456789:ABCDEFGHIJKLMNOPQRSTUVWXYZ_abcdefghijklmnopqrstuvwxyz"

CharAt(s, i) == SubSeq(s, i, i)

CharsOf(alphabet) == {CharAt(alphabet, i) : i \in 1..Len(alphabet)}

\* position of each character of alphabet in it
IndexMap(alphabet) ==
    [c \in CharsOf(alphabet) |-> CHOOSE i \in 1..Len(alphabet) : CharAt(alphabet, i) = c]

LowerIndex == IndexMap(LowerChars)
UpperIndex == IndexMap(UpperChars)
DigitIndex == IndexMap(DigitChars)
CodePoint == IndexMap(AsciiChars)

IsLower(c) == c \in DOMAIN LowerIndex
IsUpper(c) == c \in DOMAIN UpperIndex
IsCased(c) == IsLower(c) \/ IsUpper(c)
IsDigit(c) == c \in DOMAIN DigitIndex

UpperChar(c) == IF IsLower(c) THEN CharAt(UpperChars, LowerIndex[c]) ELSE c
LowerChar(c) == IF IsUpper(c) THEN CharAt(LowerChars, UpperIndex[c]) ELSE c

RECURSIVE str_upper(_)
str_upper(s) ==
    IF s = "" THEN "" ELSE UpperChar(CharAt(s, 1)) \o str_upper(SubSeq(s, 2, Len(s)))

RECURSIVE str_lower(_)
str_lower(s) ==
    IF s = "" THEN "" ELSE LowerChar(CharAt(s, 1)) \o str_lower(SubSeq(s, 2, Len(s)))

\* str.capitalize(): first character upper-cased, the rest lower-cased
str_capitalize(s) ==
    IF s = "" THEN "" ELSE UpperChar(CharAt(s, 1)) \o str_lower(SubSeq(s, 2, Len(s)))

\* str.title(): a cased character is upper-cased when the previous character is
\* uncased (or there is none) and lower-cased otherwise
RECURSIVE TitleFrom(_, _)
TitleFrom(s, prev_cased) ==
    IF s = "" THEN ""
    ELSE LET c == CharAt(s, 1)
             r == SubSeq(s, 2, Len(s))
         IN  IF IsCased(c)
             THEN (IF prev_cased THEN LowerChar(c) ELSE UpperChar(c)) \o TitleFrom(r, TRUE)
             ELSE c \o TitleFrom(r, FALSE)

str_title(s) == TitleFrom(s, FALSE)

\* the matches of sub in s
MatchAt(s, sub, i) == SubSeq(s, i, i + Len(sub) - 1) = sub

\* sub in s
str_contains(sub, s) == \E i \in 1..(Len(s) - Len(sub) + 1) : MatchAt(s, sub, i)

\* s.find(sub, i), 1-based, for a sub that occurs at or after i
RECURSIVE FindFrom(_, _, _)
FindFrom(s, sub, i) == IF MatchAt(s, sub, i) THEN i ELSE FindFrom(s, sub, i + 1)

\* str.replace(old, new), old non-empty: the leftmost non-overlapping occurrences,
\* found one after the other
RECURSIVE str_replace(_, _, _)
str_replace(s, old, new) ==
    IF ~str_contains(old, s) THEN s
    ELSE LET i == FindFrom(s, old, 1)
         IN  SubSeq(s, 1, i - 1) \o new \o str_replace(SubSeq(s, i + Len(old), Len(s)), old, new)

\* the format spec {s:<w}: left-aligned, padded with spaces to width w
Blank10 == "          "
Blank40 == Blank10 \o Blank10 \o Blank10 \o Blank10
Spaces(n) == IF n <= 0 THEN "" ELSE SubSeq(Blank40, 1, n)

PadLeftAligned(s, w) == s \o Spaces(w - Len(s))

RECURSIVE Repeat(_, _)
Repeat(s, n) == IF n <= 0 THEN "" ELSE s \o Repeat(s, n - 1)

\* a < b for str: lexicographic by code point
RECURSIVE StrLess(_, _)
StrLess(a, b) ==
    IF b = "" THEN FALSE
    ELSE IF a = "" THEN TRUE
    ELSE LET ca == CodePoint[CharAt(a, 1)]
             cb == CodePoint[CharAt(b, 1)]
         IN  IF ca # cb THEN ca < cb
             ELSE StrLess(SubSeq(a, 2, Len(a)), SubSeq(b, 2, Len(b)))

\* sorted(keys): ascending; the keys of a dict are distinct, so the result does not
\* depend on the sorting algorithm (here: insertion)
RECURSIVE InsertSorted(_, _)
InsertSorted(seq, x) ==
    IF seq = <<>> THEN <<x>>
    ELSE IF StrLess(x, Head(seq)) THEN <<x>> \o seq
    ELSE <<Head(seq)>> \o InsertSorted(Tail(seq), x)

RECURSIVE SortedKeys(_)
SortedKeys(S) ==
    IF S = {} THEN <<>>
    ELSE LET x == CHOOSE e \in S : TRUE
         IN  InsertSorted(SortedKeys(S \ {x}), x)

(* int(s) *)

RECURSIVE StripLeft(_)
StripLeft(s) ==
    IF s # "" /\ CharAt(s, 1) = " " THEN StripLeft(SubSeq(s, 2, Len(s))) ELSE s

RECURSIVE StripRight(_)
StripRight(s) ==
    IF s # "" /\ CharAt(s, Len(s)) = " " THEN StripRight(SubSeq(s, 1, Len(s) - 1)) ELSE s

str_strip(s) == StripRight(StripLeft(s))

\* digits, with single underscores allowed between digits only
RECURSIVE IsDigitGroup(_, _)
IsDigitGroup(s, after_digit) ==
    IF s = "" THEN after_digit
    ELSE LET c == CharAt(s, 1)
             r == SubSeq(s, 2, Len(s))
         IN  IF IsDigit(c) THEN IsDigitGroup(r, TRUE)
             ELSE IF c = "_" THEN after_digit /\ r # "" /\ IsDigit(CharAt(r, 1)) /\ IsDigitGroup(r, FALSE)
             ELSE FALSE

RECURSIVE DigitsValue(_, _)
DigitsValue(s, acc) ==
    IF s = "" THEN acc
    ELSE LET c == CharAt(s, 1)
             r == SubSeq(s, 2, Len(s))
         IN  IF c = "_" THEN DigitsValue(r, acc)
             ELSE DigitsValue(r, 10 * acc + (DigitIndex[c] - 1))

\* int(s): [ok |-> FALSE] stands for ValueError
int_parse(s) ==
    LET t == str_strip(s)
        signed == t # "" /\ CharAt(t, 1) \in {"+", "-"}
        body == IF signed THEN SubSeq(t, 2, Len(t)) ELSE t
    IN  IF IsDigitGroup(body, FALSE)
        THEN [ok |-> TRUE,
              value |-> IF signed /\ CharAt(t, 1) = "-"
                        THEN 0 - DigitsValue(body, 0) ELSE DigitsValue(body, 0)]
        ELSE [ok |-> FALSE, value |-> 0]

-----------------------------------------------------------------------------
(* Program constants *)

POSITION_STAT_MAP ==
    [p \in {"QB", "RB", "WR", "TE", "FB", "DB", "CB", "S", "LB", "DE", "DT", "DL",
            "K", "P", "LS", "OL"} |->
        CASE p = "QB" -> <<"passing", "rushing", "receiving", "fumbles">>
          [] p \in {"RB", "FB"} -> <<"rushing", "receiving", "fumbles">>
          [] p \in {"WR", "TE"} -> <<"receiving", "rushing", "fumbles">>
          [] p \in {"DB", "CB", "S", "LB", "DE", "DT", "DL"} ->
                <<"defensive", "interceptions", "fumbles">>
          [] p = "K" -> <<"kicking">>
          [] p = "P" -> <<"punting">>
          [] p \in {"LS", "OL"} -> <<>>]

\* list(POSITION_STAT_MAP.keys()) as the f-string prints it
POSITION_KEYS_REPR ==
    "['QB', 'RB', 'WR', 'TE', 'FB', 'DB', 'CB', 'S', 'LB', 'DE', 'DT', 'DL', 'K', 'P', 'LS', 'OL']"

display_categories == <<"total", "offense", "defense">>

\* the exclusion list with athlete_id forgotten
EXCLUDED_FIELDS_NoAthleteId == {"player", "team", "conference", "category"}

\* the fields the merge leaves out
EXCLUDED_FIELDS == {"player", "team", "conference", "athlete_id", "category"}

KEY_NOT_FOUND_MSG ==
    "API key not found. Please set the CFBD_API_KEY environment variable in a .env file or your system environment."

-----------------------------------------------------------------------------
(* Exceptions and the except clauses *)

\* issubclass(kind, cls) for the exception classes of the model
IsSubclass(kind, cls) == kind = cls \/ cls = "Exception"

\* index of the first except clause that catches kind, 0 when none does
FirstHandler(classes, kind) ==
    IF \E i \in 1..Len(classes) : IsSubclass(kind, classes[i])
    THEN CHOOSE i \in 1..Len(classes) :
            /\ IsSubclass(kind, classes[i])
            /\ \A j \in 1..(i - 1) : ~IsSubclass(kind, classes[j])
    ELSE 0

\* fetch_advanced_stats without its `except Exception` clause
FetchExceptClasses_ApiOnly == <<"ApiException">>

\* the except clauses of fetch_advanced_stats
FetchExceptClasses == <<"ApiException", "Exception">>

\* the except clauses of get_player_position
RosterExceptClasses == <<"ApiException", "Exception">>

\* the except clauses of get_player_stats_by_name
StatsExceptClasses == <<"ApiException", "Exception">>

\* the menu catching another exception class than the one int() raises
MenuExceptClass_TypeError == "TypeError"

\* the except clause of the menu's try around int() and the operation
MenuExceptClass == "ValueError"

\* `configuration.access_token is None`: an empty token passes
TokenMissing_NoneOnly(token) == token.t = "none"

\* `not configuration.access_token`
TokenMissing(token) == ~Truthy(token)

-----------------------------------------------------------------------------
(* Output lines and requests *)

Line(kind, text) == [kind |-> kind, section |-> "", text |-> text]
SectionLine(kind, section, text) == [kind |-> kind, section |-> section, text |-> text]

InvalidYearLine == Line("invalid_year", "Invalid year. Please enter a valid integer for the year.")

Request(api, year, team, category) ==
    [api |-> api, year |-> year, team |-> team, category |-> category]

\* what a remote call gives back: a fault (an exception class) or a response
Fault(kind) == [fault |-> kind, response |-> <<>>]
Response(r) == [fault |-> "", response |-> r]

-----------------------------------------------------------------------------
(* fetch_advanced_stats *)

\* the except clauses applied to an exception raised inside the try
fetch_advanced_stats_except(team_name, kind, msg) ==
    LET h == FirstHandler(FetchExceptClasses, kind)
    IN  IF h = 0 THEN [result |-> PyNone, lines |-> <<>>, raised |-> kind]
        ELSE IF FetchExceptClasses[h] = "ApiException"
        THEN [result |-> PyNone, raised |-> "",
              lines |-> <<Line("api_error", "CFBD API Error for " \o team_name \o ": " \o msg)>>]
        ELSE [result |-> PyNone, raised |-> "",
              lines |-> <<Line("unexpected_error",
                              "An unexpected error occurred for " \o team_name \o ": " \o msg)>>]

\* the function up to the request: issued says whether the request went out
fetch_advanced_stats_begin(token, team_name, year) ==
    IF TokenMissing(token)
    THEN [issued |-> FALSE] @@ fetch_advanced_stats_except(team_name, "ValueError", KEY_NOT_FOUND_MSG)
    ELSE [issued |-> TRUE, result |-> PyNone, raised |-> "",
          lines |-> <<Line("fetching", "Fetching advanced stats for " \o team_name
                                        \o " in " \o ToString(year) \o "...")>>]

\* the function from the reply on
fetch_advanced_stats_end(team_name, year, reply) ==
    IF reply.fault # ""
    THEN fetch_advanced_stats_except(team_name, reply.fault, reply.fault)
    ELSE IF reply.response # <<>>
    THEN [result |-> PyDict(reply.response[1]), lines |-> <<>>, raised |-> ""]
    ELSE [result |-> PyNone, raised |-> "",
          lines |-> <<Line("not_found", "No advanced stats found for " \o team_name \o " in "
                                         \o ToString(year) \o ". Please check the team name and year.")>>]

-----------------------------------------------------------------------------
(* compare_teams *)

\* stats_a_cat.get(stat_name, "N/A")
DictGetOrNA(d, k) == IF k \in DOMAIN d THEN d[k] ELSE PyStr("N/A")

\* the row loop over the keys of both teams
RowKeys_Union(a_cat, b_cat) == SortedKeys(DOMAIN a_cat \cup DOMAIN b_cat)

\* the keys the row loop iterates, in its order
RowKeys(a_cat, b_cat) == SortedKeys(DOMAIN a_cat)

RowText(stat_name, value_a, value_b) ==
    PadLeftAligned(str_title(str_replace(stat_name, "_", " ")), 30)
        \o PadLeftAligned(py_str(value_a), 20) \o PadLeftAligned(py_str(value_b), 20)

\* one iteration of the loop over display_categories
SectionLines(category_name, team_a_name, team_b_name, sa, sb) ==
    LET stats_a_cat == DictGet(sa, category_name)
        stats_b_cat == DictGet(sb, category_name)
        header == SectionLine("section_header", category_name,
                              "\n--- " \o str_capitalize(category_name) \o " ---")
    IN  IF Truthy(stats_a_cat) /\ Truthy(stats_b_cat)
           /\ stats_a_cat.t = "dict" /\ stats_b_cat.t = "dict"
        THEN LET keys == RowKeys(stats_a_cat.v, stats_b_cat.v)
             IN  <<header,
                   SectionLine("column_titles", category_name,
                               PadLeftAligned("Statistic", 30) \o PadLeftAligned(team_a_name, 20)
                                   \o PadLeftAligned(team_b_name, 20)),
                   SectionLine("separator", category_name, Repeat("-", 70))>>
                 \o [i \in 1..Len(keys) |->
                        SectionLine("row", category_name,
                                    RowText(keys[i], DictGetOrNA(stats_a_cat.v, keys[i]),
                                            DictGetOrNA(stats_b_cat.v, keys[i])))]
        ELSE <<header>>

\* compare_teams after both fetches
CompareLines(team_a_name, team_b_name, sa, sb) ==
    IF ~Truthy(sa) \/ ~Truthy(sb) THEN <<>>
    ELSE SectionLines(display_categories[1], team_a_name, team_b_name, sa.v, sb.v)
         \o SectionLines(display_categories[2], team_a_name, team_b_name, sa.v, sb.v)
         \o SectionLines(display_categories[3], team_a_name, team_b_name, sa.v, sb.v)

-----------------------------------------------------------------------------
(* get_player_position *)

get_player_position_except(team_name, kind, msg) ==
    LET h == FirstHandler(RosterExceptClasses, kind)
    IN  IF h = 0 THEN [result |-> PyNone, lines |-> <<>>, raised |-> kind]
        ELSE IF RosterExceptClasses[h] = "ApiException"
        THEN [result |-> PyNone, raised |-> "",
              lines |-> <<Line("roster_api_error", "CFBD API Error while fetching roster for "
                                                    \o team_name \o ": " \o msg)>>]
        ELSE [result |-> PyNone, raised |-> "",
              lines |-> <<Line("roster_unexpected_error",
                              "An unexpected error occurred while fetching roster: " \o msg)>>]

get_player_position_begin(token, team_name) ==
    IF TokenMissing(token)
    THEN [issued |-> FALSE] @@ get_player_position_except(team_name, "ValueError", KEY_NOT_FOUND_MSG)
    ELSE [issued |-> TRUE, result |-> PyNone, raised |-> "", lines |-> <<>>]

\* the scan of the roster: the first entry whose name matches, case-insensitively
RECURSIVE RosterScan(_, _)
RosterScan(roster, player_name) ==
    IF roster = <<>> THEN PyNone
    ELSE IF str_lower(Head(roster).name) = str_lower(player_name)
         THEN Head(roster).position
         ELSE RosterScan(Tail(roster), player_name)

get_player_position_end(player_name, team_name, reply) ==
    IF reply.fault # ""
    THEN get_player_position_except(team_name, reply.fault, reply.fault)
    ELSE [result |-> RosterScan(reply.response, player_name), lines |-> <<>>, raised |-> ""]

-----------------------------------------------------------------------------
(* get_player_stats_by_name *)

\* POSITION_STAT_MAP.get(position.upper(), None)
CategoriesOf(pos) ==
    IF str_upper(pos) \in DOMAIN POSITION_STAT_MAP
    THEN [found |-> TRUE, list |-> POSITION_STAT_MAP[str_upper(pos)]]
    ELSE [found |-> FALSE, list |-> <<>>]

\* `categories is None`: an empty category list passes
NotCategories_NoneOnly(c) == ~c.found

\* `not categories`
NotCategories(c) == ~c.found \/ c.list = <<>>

\* `for category in sorted(categories)`
LoopCategories_Sorted(list) == SortedKeys({list[i] : i \in 1..Len(list)})

\* the sequence the for loop walks
LoopCategories(list) == list

get_player_stats_except(kind, msg) ==
    LET h == FirstHandler(StatsExceptClasses, kind)
    IN  IF h = 0 THEN [lines |-> <<>>, raised |-> kind]
        ELSE IF StatsExceptClasses[h] = "ApiException"
        THEN [raised |-> "", lines |-> <<Line("stats_api_error", "CFBD API Error: " \o msg)>>]
        ELSE [raised |-> "",
              lines |-> <<Line("stats_unexpected_error", "An unexpected error occurred: " \o msg)>>]

\* next((p.to_dict() for p in response if p.player.lower() == player_name.lower()), None)
RECURSIVE FindPlayer(_, _)
FindPlayer(response, player_name) ==
    IF response = <<>> THEN PyNone
    ELSE IF str_lower(Head(response)["player"].v) = str_lower(player_name)
         THEN PyDict(Head(response))
         ELSE FindPlayer(Tail(response), player_name)

\* the fields of a matched record that are merged
MergedFields(rec) == DOMAIN rec \ EXCLUDED_FIELDS

\* the inner loop: combined_stats[f"{category}_{stat_name}"] = value
MergeRecord(combined, category, rec) ==
    LET new == {category \o "_" \o f : f \in MergedFields(rec)}
    IN  [k \in DOMAIN combined \cup new |->
            IF k \in new
            THEN rec[CHOOSE f \in MergedFields(rec) : category \o "_" \o f = k]
            ELSE combined[k]]

\* the loop body after the reply: `if response:` ... `if player_stats:` ...
MatchOf(response, player_name) ==
    IF response # <<>> THEN FindPlayer(response, player_name) ELSE PyNone

MergeResponse(combined, category, response, player_name) ==
    LET player_stats == MatchOf(response, player_name)
    IN  IF Truthy(player_stats) THEN MergeRecord(combined, category, player_stats.v) ELSE combined

\* the label printed for a key of combined_stats
DisplayKey(stat_key) ==
    LET display_key ==
            str_replace(str_replace(str_replace(str_replace(
                str_title(str_replace(stat_key, "_", " ")),
                "Passing ", ""), "Rushing ", ""), "Receiving ", ""), "Fumbles ", "")
    IN  IF str_contains("passing_", stat_key) THEN "Passing " \o display_key
        ELSE IF str_contains("rushing_", stat_key) THEN "Rushing " \o display_key
        ELSE IF str_contains("receiving_", stat_key) THEN "Receiving " \o display_key
        ELSE IF str_contains("fumbles_", stat_key) THEN "Fumbles " \o display_key
        ELSE display_key

StatLine(stat_key, value) ==
    [kind |-> "player_stat", section |-> stat_key,
     text |-> PadLeftAligned(DisplayKey(stat_key), 35) \o ": " \o py_str(value)]

\* what follows the loop: the combined mapping, or "No stats found"
FinalLines(player_name, team_name, year, pos, combined) ==
    IF DOMAIN combined # {}
    THEN LET keys == SortedKeys(DOMAIN combined)
         IN  <<Line("player_stats_header",
                    "\n--- Player Stats for " \o player_name \o " (" \o pos \o ") ---")>>
             \o [i \in 1..Len(keys) |-> StatLine(keys[i], combined[keys[i]])]
    ELSE <<Line("no_stats", "No stats found for " \o player_name \o " on team '" \o team_name
                             \o "' in " \o ToString(year) \o ".")>>

\* the for loop from its i-th iteration up to the request it issues, or, past the
\* last category, the lines that follow the loop
LoopFrom(categories, i, player_name, team_name, year, pos, combined) ==
    IF i <= Len(categories)
    THEN [pc |-> "player_stats", cat_idx |-> i, raised |-> "",
          lines |-> <<Line("fetching_category", "Fetching " \o categories[i] \o " stats...")>>,
          reqs |-> <<Request("get_player_season_stats", year, team_name, categories[i])>>]
    ELSE [pc |-> "menu", cat_idx |-> i, raised |-> "", reqs |-> <<>>,
          lines |-> FinalLines(player_name, team_name, year, pos, combined)]

\* get_player_stats_by_name from the return of get_player_position on
LookupFrom(pos_value, player_name, team_name, year) ==
    IF ~Truthy(pos_value)
    THEN [pc |-> "menu", cat_idx |-> 0, raised |-> "", reqs |-> <<>>,
          lines |-> <<Line("player_not_found",
                           "Could not find player '" \o player_name \o "' or team '" \o team_name
                               \o "' in the roster for " \o ToString(year)
                               \o ". Please check the names and try again.")>>]
    ELSE IF NotCategories(CategoriesOf(pos_value.v))
    THEN [pc |-> "menu", cat_idx |-> 0, raised |-> "", reqs |-> <<>>,
          lines |-> <<Line("unsupported_position",
                           "Player position '" \o pos_value.v
                               \o "' is not supported for detailed stats fetching. Supported positions are "
                               \o POSITION_KEYS_REPR \o ".")>>]
    ELSE LoopFrom(LoopCategories(CategoriesOf(pos_value.v).list), 1,
                  player_name, team_name, year, pos_value.v, EmptyMap)

-----------------------------------------------------------------------------
(* What the user types and what the remote API answers *)

Tokens == {PyNone, PyStr(""), PyStr("token")}

YearInputs == {"2019", " +2_019 ", "20x9", "", "2019.0", "2__019", "-", "twenty"}

TeamANames == {"LSU"}
TeamBNames == {"Clemson"}
PlayerNames == {"joe burrow"}
InvalidChoices == {"", "4", "1 "}

\* exception classes a request raises: the API's own and a transport fault
RemoteFaults == {"ApiException", "MaxRetryError"}

SeqsUpTo(S, n) == UNION {[1..k -> S] : k \in 0..n}

Wins == "wins" :> PyInt(10)
WinsLosses == ("wins" :> PyInt(10)) @@ ("losses" :> PyInt(2))
Rates == ("win_rate" :> PyStr("0.8")) @@ ("winRate" :> PyNone) @@ ("losses" :> PyInt(3))

\* a section of a team's stats: missing (<<>>) or present with a value
SectionOptions ==
    {<<>>, <<PyDict(EmptyMap)>>, <<PyInt(5)>>, <<PyDict(Wins)>>, <<PyDict(WinsLosses)>>,
     <<PyDict(Rates)>>}
OffenseOptions == {<<>>, <<PyDict(WinsLosses)>>}

\* the to_dict() of an advanced-stats record
TeamStatsOf(o) ==
    [k \in {c \in {"total", "offense", "defense"} : o[c] # <<>>} |-> o[k][1]]

DefenseOptions == {<<>>, <<PyDict(Wins)>>, <<PyDict(WinsLosses)>>, <<PyDict(Rates)>>}

TeamStatsPool ==
    {TeamStatsOf(o) : o \in [total : SectionOptions, offense : OffenseOptions,
                            defense : DefenseOptions]}

AdvancedReplies ==
    {Fault(k) : k \in RemoteFaults} \cup {Response(<<>>)}
        \cup {Response(<<d>>) : d \in TeamStatsPool}

PositionPool ==
    {PyStr("qb"), PyStr("Rb"), PyStr("K"), PyStr("lb"), PyStr("LS"), PyStr("ol"),
     PyStr("ATH"), PyStr(""), PyNone}

RosterEntries ==
    {[name |-> "JOE BURROW", position |-> p] : p \in PositionPool}
        \cup {[name |-> "Jim Smith", position |-> PyStr("K")]}

RosterReplies ==
    {Fault(k) : k \in RemoteFaults} \cup {Response(r) : r \in SeqsUpTo(RosterEntries, MaxLen)}

\* to_dict() of player-stats records
FullRecord ==
    [f \in {"player", "team", "conference", "athlete_id", "category", "season", "stat"} |->
        CASE f = "player" -> PyStr("Joe Burrow")
          [] f = "season" -> PyInt(2019)
          [] f = "athlete_id" -> PyInt(3915511)
          [] f = "stat" -> PyStr("5671")
          [] OTHER -> PyStr("x")]
NestedNameRecord ==
    [f \in {"player", "category", "Player", "passing_yds", "fumbles_lost"} |->
        CASE f = "player" -> PyStr("JOE BURROW")
          [] f = "Player" -> PyStr("JB")
          [] OTHER -> PyInt(7)]
OtherPlayerRecord ==
    [f \in {"player", "team", "stat"} |-> IF f = "player" THEN PyStr("Jim Smith") ELSE PyStr("9")]

PlayerRecords == {FullRecord, NestedNameRecord, OtherPlayerRecord}

StatsReplies ==
    {Fault(k) : k \in RemoteFaults} \cup {Response(r) : r \in SeqsUpTo(PlayerRecords, MaxLen)}

-----------------------------------------------------------------------------
(* The menu loop *)

NoArgs ==
    [choice |-> "", team_a_name |-> "", team_b_name |-> "", player_name |-> "",
     team_name |-> "", year_input |-> "", year |-> 0]

MenuLines ==
    <<Line("menu", "\nWhat would you like to do?"),
      Line("menu", "1. Compare two teams' advanced stats"),
      Line("menu", "2. Look up a player's season stats"),
      Line("menu", "3. Exit")>>

Init ==
    /\ access_token \in Tokens
    /\ pc = "menu"
    /\ out = <<Line("welcome", "Welcome to the College Football Stats Comparator and Player Lookup!")>>
    /\ calls = <<>>
    /\ args = NoArgs
    /\ stats_a = PyNone
    /\ stats_b = PyNone
    /\ position = PyNone
    /\ cat_idx = 0
    /\ combined_stats = EmptyMap
    /\ matched = <<>>
    /\ fault = ""
    /\ uncaught = ""

\* the menu's try/except around int() and the operation: where an exception that
\* leaves the operation lands
Land(pc0, lines, raised) ==
    IF raised = "" THEN [pc |-> pc0, lines |-> lines, uncaught |-> ""]
    ELSE IF IsSubclass(raised, MenuExceptClass)
    THEN [pc |-> "menu", lines |-> lines \o <<InvalidYearLine>>, uncaught |-> ""]
    ELSE [pc |-> "crashed", lines |-> lines, uncaught |-> raised]

\* compare_teams from the call of fetch_advanced_stats(team_b_name, year) on
CompareFromB(team_a_name, team_b_name, year, sa) ==
    LET fb == fetch_advanced_stats_begin(access_token, team_b_name, year)
    IN  IF fb.issued
        THEN [pc |-> "fetch_b", lines |-> fb.lines, raised |-> "", sb |-> PyNone,
              reqs |-> <<Request("get_advanced_season_stats", year, team_b_name, "")>>]
        ELSE IF fb.raised # ""
        THEN [pc |-> "menu", lines |-> fb.lines, raised |-> fb.raised, sb |-> PyNone, reqs |-> <<>>]
        ELSE [pc |-> "menu", raised |-> "", sb |-> fb.result, reqs |-> <<>>,
              lines |-> fb.lines \o CompareLines(team_a_name, team_b_name, sa, fb.result)]

\* the top of the while loop: the menu is printed and input() waits for the choice;
\* the locals of the operation that returned are gone
ShowMenu ==
    /\ pc = "menu"
    /\ pc' = "prompt"
    /\ out' = MenuLines
    /\ calls' = <<>>
    /\ args' = NoArgs
    /\ stats_a' = PyNone
    /\ stats_b' = PyNone
    /\ position' = PyNone
    /\ cat_idx' = 0
    /\ combined_stats' = EmptyMap
    /\ matched' = <<>>
    /\ fault' = ""
    /\ UNCHANGED <<access_token, uncaught>>

\* choice '1': read the inputs, int(year_input), compare_teams up to its first request
ChooseCompare(team_a_name, team_b_name, year_input) ==
    /\ pc = "prompt"
    /\ LET y == int_parse(year_input)
           banner == Line("compare_banner",
                          "--- Comparing Advanced Season Stats for " \o team_a_name \o " vs "
                              \o team_b_name \o " (" \o ToString(y.value) \o ") ---")
           fa == fetch_advanced_stats_begin(access_token, team_a_name, y.value)
           next == CompareFromB(team_a_name, team_b_name, y.value, fa.result)
           end == IF ~y.ok THEN Land("menu", <<>>, "ValueError")
                  ELSE IF fa.issued THEN Land("fetch_a", <<banner>> \o fa.lines, "")
                  ELSE IF fa.raised # "" THEN Land("menu", <<banner>> \o fa.lines, fa.raised)
                  ELSE Land(next.pc, <<banner>> \o fa.lines \o next.lines, next.raised)
       IN  /\ args' = [NoArgs EXCEPT !.choice = "1", !.team_a_name = team_a_name,
                                     !.team_b_name = team_b_name, !.year_input = year_input,
                                     !.year = y.value]
           /\ pc' = end.pc
           /\ out' = end.lines
           /\ uncaught' = end.uncaught
           /\ calls' = IF ~y.ok THEN <<>>
                       ELSE IF fa.issued
                       THEN <<Request("get_advanced_season_stats", y.value, team_a_name, "")>>
                       ELSE IF fa.raised # "" THEN <<>>
                       ELSE next.reqs
    /\ stats_a' = PyNone
    /\ stats_b' = PyNone
    /\ position' = PyNone
    /\ cat_idx' = 0
    /\ combined_stats' = EmptyMap
    /\ matched' = <<>>
    /\ fault' = ""
    /\ UNCHANGED access_token

\* the reply to the request for team A: the rest of fetch_advanced_stats, then
\* compare_teams up to the request for team B
FetchAReply(reply) ==
    /\ pc = "fetch_a"
    /\ LET r == fetch_advanced_stats_end(args.team_a_name, args.year, reply)
           next == CompareFromB(args.team_a_name, args.team_b_name, args.year, r.result)
           end == IF r.raised # "" THEN Land("menu", out \o r.lines, r.raised)
                  ELSE Land(next.pc, out \o r.lines \o next.lines, next.raised)
       IN  /\ pc' = end.pc
           /\ out' = end.lines
           /\ uncaught' = end.uncaught
           /\ calls' = IF r.raised # "" THEN calls ELSE calls \o next.reqs
           /\ stats_a' = r.result
           /\ stats_b' = IF r.raised # "" THEN PyNone ELSE next.sb
    /\ fault' = IF reply.fault # "" THEN reply.fault ELSE fault
    /\ UNCHANGED <<access_token, args, position, cat_idx, combined_stats, matched>>

\* the reply to the request for team B: the rest of fetch_advanced_stats, then the
\* rest of compare_teams
FetchBReply(reply) ==
    /\ pc = "fetch_b"
    /\ LET r == fetch_advanced_stats_end(args.team_b_name, args.year, reply)
           end == IF r.raised # "" THEN Land("menu", out \o r.lines, r.raised)
                  ELSE Land("menu",
                            out \o r.lines
                                \o CompareLines(args.team_a_name, args.team_b_name, stats_a, r.result),
                            "")
       IN  /\ pc' = end.pc
           /\ out' = end.lines
           /\ uncaught' = end.uncaught
           /\ stats_b' = r.result
    /\ fault' = IF reply.fault # "" THEN reply.fault ELSE fault
    /\ UNCHANGED <<access_token, args, calls, stats_a, position, cat_idx, combined_stats, matched>>

\* choice '2': read the inputs, int(year_input), get_player_stats_by_name up to the
\* roster request
ChoosePlayer(player_name, team_name, year_input) ==
    /\ pc = "prompt"
    /\ LET y == int_parse(year_input)
           banner == Line("lookup_banner",
                          "--- Searching for stats for " \o player_name \o " on " \o team_name
                              \o " (" \o ToString(y.value) \o ") ---")
           gp == get_player_position_begin(access_token, team_name)
           next == LookupFrom(gp.result, player_name, team_name, y.value)
           end == IF ~y.ok THEN Land("menu", <<>>, "ValueError")
                  ELSE IF gp.issued THEN Land("roster", <<banner>> \o gp.lines, "")
                  ELSE IF gp.raised # "" THEN Land("menu", <<banner>> \o gp.lines, gp.raised)
                  ELSE Land(next.pc, <<banner>> \o gp.lines \o next.lines, next.raised)
       IN  /\ args' = [NoArgs EXCEPT !.choice = "2", !.player_name = player_name,
                                     !.team_name = team_name, !.year_input = year_input,
                                     !.year = y.value]
           /\ pc' = end.pc
           /\ out' = end.lines
           /\ uncaught' = end.uncaught
           /\ calls' = IF ~y.ok THEN <<>>
                       ELSE IF gp.issued THEN <<Request("get_roster", y.value, team_name, "")>>
                       ELSE IF gp.raised # "" THEN <<>>
                       ELSE next.reqs
           /\ cat_idx' = IF y.ok /\ ~gp.issued /\ gp.raised = "" THEN next.cat_idx ELSE 0
    /\ stats_a' = PyNone
    /\ stats_b' = PyNone
    /\ position' = PyNone
    /\ combined_stats' = EmptyMap
    /\ matched' = <<>>
    /\ fault' = ""
    /\ UNCHANGED access_token

\* the reply to the roster request: the rest of get_player_position, then
\* get_player_stats_by_name up to its first player-stats request
RosterReply(reply) ==
    /\ pc = "roster"
    /\ LET r == get_player_position_end(args.player_name, args.team_name, reply)
           next == LookupFrom(r.result, args.player_name, args.team_name, args.year)
           end == IF r.raised # "" THEN Land("menu", out \o r.lines, r.raised)
                  ELSE Land(next.pc, out \o r.lines \o next.lines, next.raised)
       IN  /\ pc' = end.pc
           /\ out' = end.lines
           /\ uncaught' = end.uncaught
           /\ calls' = IF r.raised # "" THEN calls ELSE calls \o next.reqs
           /\ cat_idx' = IF r.raised # "" THEN 0 ELSE next.cat_idx
           /\ position' = r.result
    /\ fault' = IF reply.fault # "" THEN reply.fault ELSE fault
    /\ UNCHANGED <<access_token, args, stats_a, stats_b, combined_stats, matched>>

\* the reply to a player-stats request: the rest of the loop body, then the loop up
\* to its next request or, after the last category, the printing; a fault leaves
\* the try block for its except clauses
PlayerStatsReply(reply) ==
    /\ pc = "player_stats"
    /\ LET categories == LoopCategories(CategoriesOf(position.v).list)
           h == get_player_stats_except(reply.fault, reply.fault)
           merged == MergeResponse(combined_stats, categories[cat_idx], reply.response,
                                   args.player_name)
           next == LoopFrom(categories, cat_idx + 1, args.player_name, args.team_name,
                            args.year, position.v, merged)
           end == IF reply.fault # "" THEN Land("menu", out \o h.lines, h.raised)
                  ELSE Land(next.pc, out \o next.lines, next.raised)
       IN  /\ pc' = end.pc
           /\ out' = end.lines
           /\ uncaught' = end.uncaught
           /\ calls' = IF reply.fault # "" THEN calls ELSE calls \o next.reqs
           /\ cat_idx' = IF reply.fault # "" THEN cat_idx ELSE next.cat_idx
           /\ combined_stats' = IF reply.fault # "" THEN combined_stats ELSE merged
           /\ matched' = IF reply.fault # "" THEN matched
                         ELSE Append(matched, MatchOf(reply.response, args.player_name))
    /\ fault' = IF reply.fault # "" THEN reply.fault ELSE fault
    /\ UNCHANGED <<access_token, args, stats_a, stats_b, position>>

\* choice '3'
ChooseExit ==
    /\ pc = "prompt"
    /\ pc' = "exited"
    /\ out' = <<Line("goodbye", "Exiting. Goodbye!")>>
    /\ args' = [NoArgs EXCEPT !.choice = "3"]
    /\ calls' = <<>>
    /\ stats_a' = PyNone
    /\ stats_b' = PyNone
    /\ position' = PyNone
    /\ cat_idx' = 0
    /\ combined_stats' = EmptyMap
    /\ matched' = <<>>
    /\ fault' = ""
    /\ UNCHANGED <<access_token, uncaught>>

\* any other choice
ChooseInvalid(choice) ==
    /\ pc = "prompt"
    /\ pc' = "menu"
    /\ out' = <<Line("invalid_choice", "Invalid choice. Please enter 1, 2, or 3.")>>
    /\ args' = [NoArgs EXCEPT !.choice = choice]
    /\ calls' = <<>>
    /\ stats_a' = PyNone
    /\ stats_b' = PyNone
    /\ position' = PyNone
    /\ cat_idx' = 0
    /\ combined_stats' = EmptyMap
    /\ matched' = <<>>
    /\ fault' = ""
    /\ UNCHANGED <<access_token, uncaught>>

Next ==
    \/ ShowMenu
    \/ \E a \in TeamANames, b \in TeamBNames, y \in YearInputs : ChooseCompare(a, b, y)
    \/ \E reply \in AdvancedReplies : FetchAReply(reply)
    \/ \E reply \in AdvancedReplies : FetchBReply(reply)
    \/ \E p \in PlayerNames, t \in TeamANames, y \in YearInputs : ChoosePlayer(p, t, y)
    \/ \E reply \in RosterReplies : RosterReply(reply)
    \/ \E reply \in StatsReplies : PlayerStatsReply(reply)
    \/ ChooseExit
    \/ \E c \in InvalidChoices : ChooseInvalid(c)

Spec == Init /\ [][Next]_vars

-----------------------------------------------------------------------------
(* Properties *)

\* s begins with prefix
StartsWith(s, prefix) ==
    Len(prefix) <= Len(s) /\ SubSeq(s, 1, Len(prefix)) = prefix

HasLine(kind) == \E i \in 1..Len(out) : out[i].kind = kind

KindsOf(lines) == [i \in 1..Len(lines) |-> lines[i].kind]

\* the player-stats requests issued, in order
StatsRequests == SelectSeq(calls, LAMBDA r : r.api = "get_player_season_stats")

\* the lines printed for a section of the comparison, in order
SectionOutput(c) == SelectSeq(out, LAMBDA l : l.section = c)
SectionRows(c) == SelectSeq(out, LAMBDA l : l.kind = "row" /\ l.section = c)

\* the orders of the keys S that ascend by code point
AscendingOrders(S) ==
    {ks \in [1..Cardinality(S) -> S] :
        \A i, j \in 1..Cardinality(S) : i < j => StrLess(ks[i], ks[j])}

\* a player lookup that resolved a position
Resolved == args.choice = "2" /\ Truthy(position)

\* the category list the table gives the resolved position, <<>> when it gives none
ConfiguredCategories ==
    IF str_upper(position.v) \in DOMAIN POSITION_STAT_MAP
    THEN POSITION_STAT_MAP[str_upper(position.v)] ELSE <<>>

\* C1: a resolved position whose upper-cased code is no key of POSITION_STAT_MAP,
\* or is mapped to the empty list, is reported as unsupported, and the roster
\* request is the only remote call of the run.
C1_UnsupportedPosition ==
    (Resolved /\ ConfiguredCategories = <<>>) =>
        /\ pc = "menu"
        /\ KindsOf(out) = <<"lookup_banner", "unsupported_position">>
        /\ Len(calls) = 1
        /\ calls[1] = Request("get_roster", args.year, args.team_name, "")
        /\ StatsRequests = <<>>

C1_Witness ==
    /\ pc = "menu"
    /\ position = PyStr("ol")
    /\ HasLine("unsupported_position")
    /\ Len(calls) = 1

\* C2: for a position with a non-empty category list the player-stats requests are
\* the configured categories in the order of the list, one each (all of them once
\* the run has ended with no fault), and every key of the combined mapping is
\* '<category>_<field>' for a field of the record matched in that category's
\* response, with that field's value.
C2_OneRequestPerCategoryInOrder ==
    (Resolved /\ ConfiguredCategories # <<>>) =>
        LET cats == ConfiguredCategories
            reqs == StatsRequests
        IN  /\ Len(reqs) <= Len(cats)
            /\ \A i \in 1..Len(reqs) :
                    reqs[i] = Request("get_player_season_stats", args.year, args.team_name, cats[i])
            /\ Len(calls) = 1 + Len(reqs)
            /\ (pc = "menu" /\ fault = "") => Len(reqs) = Len(cats)
            /\ pc = "player_stats" => Len(reqs) = cat_idx
            /\ Len(matched) <= Len(cats)
            /\ \A k \in DOMAIN combined_stats :
                    \E i \in 1..Len(matched) :
                        /\ matched[i].t = "dict"
                        /\ \E f \in DOMAIN matched[i].v :
                                /\ k = cats[i] \o "_" \o f
                                /\ combined_stats[k] = matched[i].v[f]

C2_Witness ==
    /\ pc = "menu"
    /\ fault = ""
    /\ position = PyStr("qb")
    /\ Len(calls) = 5
    /\ "rushing_passing_yds" \in DOMAIN combined_stats
    /\ "fumbles_stat" \in DOMAIN combined_stats

\* C3: of a matched record the merge leaves out exactly player, team, conference,
\* athlete_id and category: no key of the combined mapping is a category followed
\* by one of the five, and every other field of a matched record is in the mapping
\* under its category prefix with its value.
C3_ExcludesExactlyIdentifyingFields ==
    Resolved =>
        /\ \A i \in 1..Len(matched) :
                matched[i].t = "dict" =>
                    \A f \in DOMAIN matched[i].v :
                        LET key == ConfiguredCategories[i] \o "_" \o f
                        IN  IF f \in {"player", "team", "conference", "athlete_id", "category"}
                            THEN key \notin DOMAIN combined_stats
                            ELSE /\ key \in DOMAIN combined_stats
                                 /\ combined_stats[key] = matched[i].v[f]
        /\ \A k \in DOMAIN combined_stats :
                \A i \in 1..Len(ConfiguredCategories) :
                    \A f \in {"player", "team", "conference", "athlete_id", "category"} :
                        k # ConfiguredCategories[i] \o "_" \o f

C3_Witness ==
    /\ pc = "menu"
    /\ position = PyStr("qb")
    /\ Len(matched) = 4
    /\ matched[1] = PyDict(FullRecord)
    /\ matched[3] = PyDict(NestedNameRecord)
    /\ DOMAIN combined_stats =
            {"passing_season", "passing_stat", "receiving_Player", "receiving_passing_yds",
             "receiving_fumbles_lost"}

\* C4: in every section of the comparison whose table is printed, the rows are the
\* keys of team A's sub-mapping, each once, ascending by code point, each with team
\* A's value and with team B's value or the literal N/A when team B lacks the key;
\* no row is printed for a key only team B has.
C4_RowsAreTeamAKeys ==
    (args.choice = "1" /\ pc = "menu" /\ Truthy(stats_a) /\ Truthy(stats_b)) =>
        \A s \in 1..Len(display_categories) :
            LET c == display_categories[s]
                rows == SectionRows(c)
                printed == \E i \in 1..Len(out) :
                                out[i].kind = "column_titles" /\ out[i].section = c
            IN  IF printed
                THEN LET a == stats_a.v[c].v
                         b == stats_b.v[c].v
                     IN  /\ \E ks \in AscendingOrders(DOMAIN a) :
                                /\ Len(rows) = Len(ks)
                                /\ \A i \in 1..Len(ks) :
                                        rows[i].text =
                                            RowText(ks[i], a[ks[i]],
                                                    IF ks[i] \in DOMAIN b THEN b[ks[i]]
                                                    ELSE PyStr("N/A"))
                         /\ \A k \in DOMAIN b \ DOMAIN a :
                                \A i \in 1..Len(rows) :
                                    ~StartsWith(rows[i].text,
                                                PadLeftAligned(str_title(str_replace(k, "_", " ")), 30))
                ELSE rows = <<>>

C4_Witness ==
    /\ args.choice = "1"
    /\ pc = "menu"
    /\ Truthy(stats_a)
    /\ Truthy(stats_b)
    /\ DictGet(stats_a.v, "total") = PyDict(Wins)
    /\ DictGet(stats_b.v, "total") = PyDict(WinsLosses)
    /\ DictGet(stats_a.v, "defense") = PyDict(Rates)
    /\ DictGet(stats_b.v, "defense") = PyDict(WinsLosses)
    /\ Len(SectionRows("total")) = 1
    /\ SectionRows("total")[1].text = RowText("wins", PyInt(10), PyInt(10))
    /\ Len(SectionRows("defense")) = 3
    /\ SectionRows("defense")[1].text = RowText("losses", PyInt(3), PyInt(2))
    /\ SectionRows("defense")[2].text = RowText("winRate", PyNone, PyStr("N/A"))

\* C5: when both teams' stats were fetched and one team lacks a section the other
\* has, no line at all (header, column titles, separator, row) is printed for that
\* section.
C5_NothingPrintedForMissingSection ==
    (args.choice = "1" /\ pc = "menu" /\ Truthy(stats_a) /\ Truthy(stats_b)) =>
        \A s \in 1..Len(display_categories) :
            LET c == display_categories[s]
            IN  ((c \in DOMAIN stats_a.v) # (c \in DOMAIN stats_b.v)) => SectionOutput(c) = <<>>

\* the label C6 states for a key: for the four labelled categories the label and the
\* title-cased field name; for any other key, none of the four labels in front
C6_LabelAsStated(key, label) ==
    LET Field(prefix) == str_title(str_replace(SubSeq(key, Len(prefix) + 1, Len(key)), "_", " "))
    IN  IF StartsWith(key, "passing_") THEN label = "Passing " \o Field("passing_")
        ELSE IF StartsWith(key, "rushing_") THEN label = "Rushing " \o Field("rushing_")
        ELSE IF StartsWith(key, "receiving_") THEN label = "Receiving " \o Field("receiving_")
        ELSE IF StartsWith(key, "fumbles_") THEN label = "Fumbles " \o Field("fumbles_")
        ELSE \A h \in {"Passing ", "Rushing ", "Receiving ", "Fumbles "} : ~StartsWith(label, h)

\* C6: the label printed for a combined key has 'Passing', 'Rushing', 'Receiving' or
\* 'Fumbles' in front exactly when the key begins with that category's prefix,
\* followed by the title-cased field name; a key of another category gets none of
\* the four labels, whatever its field name.
C6_LabelFollowsCategoryPrefix ==
    \A i \in 1..Len(out) :
        out[i].kind = "player_stat" =>
            \E label \in {DisplayKey(out[i].section)} :
                /\ out[i].text = PadLeftAligned(label, 35) \o ": "
                                    \o py_str(combined_stats[out[i].section])
                /\ C6_LabelAsStated(out[i].section, label)

\* the years typed in the model that int() rejects
UnparsableYears == {"20x9", "", "2019.0", "2__019", "-", "twenty"}

\* C7: for choice 1 or 2 with a year that is no integer literal the invalid-year
\* line is all that is printed, no remote call is issued and the loop is back at its
\* top; the loop is left only through choice 3.
C7_InvalidYearNoRemoteCall ==
    /\ (args.choice \in {"1", "2"} /\ args.year_input \in UnparsableYears) =>
            /\ pc = "menu"
            /\ out = <<InvalidYearLine>>
            /\ calls = <<>>
    /\ pc \in {"menu", "prompt", "fetch_a", "fetch_b", "roster", "player_stats", "exited"}
    /\ pc = "exited" => args.choice = "3"

C7_Witness ==
    /\ access_token = PyStr("token")
    /\ args.choice = "2"
    /\ args.year_input = "2019.0"
    /\ pc = "menu"
    /\ out = <<InvalidYearLine>>

\* C8: a fault of a remote call never leaves the function that made the call: it is
\* reported there, the fetcher and the resolver return None, nothing reaches the
\* menu loop as an exception, and the loop goes on (after a fault of the request for
\* team A the request for team B is still made; after any other fault the loop is
\* back at its top).
C8_FaultsAreContained ==
    /\ uncaught = ""
    /\ pc # "crashed"
    /\ (fault # "" /\ args.choice = "1") =>
            /\ pc \in {"fetch_b", "menu"}
            /\ HasLine(IF fault = "ApiException" THEN "api_error" ELSE "unexpected_error")
            /\ stats_a = PyNone \/ stats_b = PyNone
            /\ pc = "fetch_b" => stats_a = PyNone
            /\ pc = "menu" => \A i \in 1..Len(out) : out[i].section = ""
    /\ (fault # "" /\ args.choice = "2") =>
            /\ pc = "menu"
            /\ IF cat_idx = 0
               THEN /\ position = PyNone
                    /\ HasLine(IF fault = "ApiException" THEN "roster_api_error"
                               ELSE "roster_unexpected_error")
                    /\ out[Len(out)].kind = "player_not_found"
               ELSE out[Len(out)].kind = (IF fault = "ApiException" THEN "stats_api_error"
                                          ELSE "stats_unexpected_error")

C8_Witness ==
    /\ fault = "MaxRetryError"
    /\ args.choice = "1"
    /\ pc = "menu"
    /\ stats_a # PyNone
    /\ stats_b = PyNone
    /\ HasLine("unexpected_error")

\* C9: with the credential absent (None or empty) no remote call is ever issued:
\* each fetch and the roster lookup report the missing credential and return None,
\* so neither operation reaches a request.
C9_NoCredentialNoRemoteCall ==
    ~Truthy(access_token) =>
        /\ calls = <<>>
        /\ pc \in {"menu", "prompt", "exited"}
        /\ stats_a = PyNone /\ stats_b = PyNone /\ position = PyNone
        /\ (args.choice = "1" /\ args.year_input \notin UnparsableYears) =>
                /\ KindsOf(out) = <<"compare_banner", "unexpected_error", "unexpected_error">>
                /\ out[2].text = "An unexpected error occurred for " \o args.team_a_name
                                    \o ": " \o KEY_NOT_FOUND_MSG
                /\ out[3].text = "An unexpected error occurred for " \o args.team_b_name
                                    \o ": " \o KEY_NOT_FOUND_MSG
        /\ (args.choice = "2" /\ args.year_input \notin UnparsableYears) =>
                /\ KindsOf(out) = <<"lookup_banner", "roster_unexpected_error", "player_not_found">>
                /\ out[2].text = "An unexpected error occurred while fetching roster: "
                                    \o KEY_NOT_FOUND_MSG

C9_Witness ==
    /\ access_token = PyStr("")
    /\ args.choice = "2"
    /\ args.year_input = " +2_019 "
    /\ pc = "menu"
    /\ Len(out) = 3
    /\ calls = <<>>

\* C10: after a fault of one category's player-stats request the lookup still ends
\* by printing the combined mapping when it is non-empty and by reporting 'no stats
\* found' otherwise.
C10_FaultStillPrintsCombined ==
    (args.choice = "2" /\ pc = "menu" /\ fault # "" /\ cat_idx >= 1) =>
        IF DOMAIN combined_stats # {}
        THEN /\ HasLine("player_stats_header")
             /\ \A k \in DOMAIN combined_stats :
                    \E i \in 1..Len(out) : out[i].kind = "player_stat" /\ out[i].section = k
        ELSE HasLine("no_stats")

====
